---- MODULE Spec2Model ----
(***************************************************************************)
(* Model of CSVLengthIndicated.cpp: convertCSVToLengthIndicated (the       *)
(* encoder, CSV text -> length-indicated binary) and                       *)
(* readLengthIndicatedRecord (the decoder, one record per call).           *)
(*                                                                         *)
(* Files are sequences of bytes.  A byte is a number in 0..ByteBase-1; the *)
(* length field is Width bytes, least significant byte first (the native   *)
(* order of the usual hosts).  The encoder is modelled statement by        *)
(* statement (encPc is its position); one call of the decoder is one       *)
(* action.  The streams are modelled by what the calls of the source do to *)
(* them: std::ifstream::read, std::ofstream::write and getline.            *)
(***************************************************************************)
EXTENDS Integers, Sequences, FiniteSets, TLC

\* ------------------------------------------------------------------ bounds
ByteBase == 6    \* number of byte values (256 on the real hosts)
Width == 2       \* sizeof(size_t) in bytes (8 or 4 on the real hosts)
MaxInput == 4    \* longest enumerated CSV file, in bytes
MaxPrior == 1    \* longest enumerated prior content of the output file
MaxStream == 5   \* longest enumerated hand-crafted binary file
MaxAlloc == 6    \* longest std::string the allocator grants
MaxBudget == 4   \* largest enumerated free space of a nearly full device

\* --------------------------------------------------------------- constants
NL == 1          \* the line terminator getline stops at ('\n')
NUL == 0         \* the '\0' a fresh std::string is filled with

Byte == 0 .. (ByteBase - 1)
\* The bytes the enumerated files are made of: NUL, the terminator, and one
\* ordinary byte (a comma, a letter: the code treats them all alike).
TextByte == {NUL, NL, 2}
\* The line a,b,c followed by its terminator (2 is the comma; 3, 4, 5 the letters).
ABCLine == <<3, 2, 4, 2, 5>>
ABCFile == ABCLine \o <<NL>>

SeqsUpTo(S, n) == UNION {[1 .. k -> S] : k \in 0 .. n}
Min(a, b) == IF a < b THEN a ELSE b
\* Every encoder output fits in Ample bytes: a file of n bytes holds at most n
\* lines, so its records take at most n * Width + n bytes.
Ample == (Len(ABCFile) + MaxInput) * (Width + 1)

VARIABLES
    inputBytes,        \* content of the file at path csvFile
    inReadable,        \* whether csvFile can be opened for reading
    outBytes,          \* content of the file at path outputFile
    outExists,         \* whether that file exists
    outWritable,       \* whether outputFile can be opened for writing
    outPrior,          \* content of outputFile before the call (history)
    diskFree,          \* bytes the output device still accepts
    encPc,             \* position of convertCSVToLengthIndicated
    inputFile,         \* std::ifstream inputFile: [open, pos]
    outputFileStream,  \* std::ofstream outputFileStream: [open, bad]
    line,              \* std::string line
    recordLength,      \* size_t recordLength of the encoder
    cerr,              \* what was written to std::cerr
    encRet,            \* what the encoder's caller receives
    fileStream,        \* std::ifstream &fileStream of the decoder
    calls              \* one entry per call of readLengthIndicatedRecord

vars == <<inputBytes, inReadable, outBytes, outExists, outWritable, outPrior,
          diskFree, encPc, inputFile, outputFileStream, line, recordLength,
          cerr, encRet, fileStream, calls>>

fsVars == <<inputBytes, inReadable, outExists, outWritable, outPrior>>
decVars == <<fileStream, calls>>

\* ------------------------------------------------------- the length field
\* (mutant) the length field written most significant byte first.
RECURSIVE LengthBytesBigEndian(_, _)
LengthBytesBigEndian(n, w) ==
    IF w = 0 THEN <<>>
    ELSE LengthBytesBigEndian(n \div ByteBase, w - 1) \o <<n % ByteBase>>

\* reinterpret_cast<const char *>(&recordLength), sizeof(recordLength):
\* the Width bytes of n, least significant first.
RECURSIVE LengthBytes(_, _)
LengthBytes(n, w) ==
    IF w = 0 THEN <<>> ELSE <<n % ByteBase>> \o LengthBytes(n \div ByteBase, w - 1)

\* reinterpret_cast<char *>(&recordLength): the number its Width bytes hold.
RECURSIVE FieldValue(_)
FieldValue(bs) ==
    IF bs = <<>> THEN 0 ELSE bs[1] + ByteBase * FieldValue(Tail(bs))

ClosedStream == [open |-> FALSE, content |-> <<>>, pos |-> 0, eof |-> FALSE, fail |-> FALSE]

\* ------------------------------------------------------------ the streams
\* getline(inputFile, line) on a stream at position pos of content f: the bytes
\* up to the next terminator (extracted and dropped) or up to the end of the
\* file; it fails when there is nothing left to extract.
RECURSIVE UpToNL(_, _)
UpToNL(f, pos) ==
    IF pos >= Len(f) \/ f[pos + 1] = NL THEN <<>>
    ELSE <<f[pos + 1]>> \o UpToNL(f, pos + 1)

GetLine(f, pos) ==
    LET l == UpToNL(f, pos)
        end == pos + Len(l)
    IN  [ok |-> pos < Len(f),
         line |-> l,
         pos |-> IF end < Len(f) THEN end + 1 ELSE end]

\* outputFileStream.write(bs, Len(bs)): nothing once the stream is bad;
\* otherwise the bytes the device accepts, and badbit when it refuses any.
OutWrite(bs) ==
    IF outputFileStream.bad
    THEN UNCHANGED <<outBytes, diskFree, outputFileStream>>
    ELSE LET k == Min(Len(bs), diskFree)
         IN  /\ outBytes' = outBytes \o SubSeq(bs, 1, k)
             /\ diskFree' = diskFree - k
             /\ outputFileStream' = [outputFileStream EXCEPT !.bad = k < Len(bs)]

\* (mutant) a read that reaches the end of the file sets eofbit and failbit
\* even when it got all the bytes it asked for.
StreamReadEofAtEnd(s, n) ==
    IF s.eof \/ s.fail \/ ~s.open
    THEN [data |-> <<>>, stream |-> [s EXCEPT !.fail = TRUE]]
    ELSE LET k == Min(n, Len(s.content) - s.pos)
         IN  [data |-> SubSeq(s.content, s.pos + 1, s.pos + k),
              stream |-> [s EXCEPT !.pos = s.pos + k,
                                   !.eof = s.pos + k = Len(s.content),
                                   !.fail = s.pos + k = Len(s.content)]]

\* fileStream.read(buf, n): nothing, and failbit, when the stream is not good;
\* otherwise the next n bytes, or those that remain, with eofbit and failbit.
StreamRead(s, n) ==
    IF s.eof \/ s.fail \/ ~s.open
    THEN [data |-> <<>>, stream |-> [s EXCEPT !.fail = TRUE]]
    ELSE LET k == Min(n, Len(s.content) - s.pos)
         IN  [data |-> SubSeq(s.content, s.pos + 1, s.pos + k),
              stream |-> [s EXCEPT !.pos = s.pos + k,
                                   !.eof = k < n,
                                   !.fail = k < n]]

\* -------------------------------------------- convertCSVToLengthIndicated
\* (mutant) the output opened for appending: its prior content is kept.
EncOpenAppend ==
    /\ encPc = "idle"
    /\ ~fileStream.open
    /\ inputFile' = [open |-> inReadable, pos |-> 0]
    /\ outputFileStream' = [open |-> outWritable, bad |-> FALSE]
    /\ outBytes' = outBytes
    /\ outExists' = (outExists \/ outWritable)
    /\ IF ~inReadable \/ ~outWritable
       THEN /\ cerr' = Append(cerr, "Error opening file!")
            /\ encRet' = "void"
            /\ encPc' = "returned"
       ELSE /\ encPc' = "getline"
            /\ UNCHANGED <<cerr, encRet>>
    /\ UNCHANGED <<inputBytes, inReadable, outWritable, outPrior, diskFree,
                   line, recordLength, decVars>>

\* Lines 32-39: both streams are constructed (the output file is created or
\* truncated when it opens), and only then are they checked.
EncOpen ==
    /\ encPc = "idle"
    /\ ~fileStream.open
    /\ inputFile' = [open |-> inReadable, pos |-> 0]
    /\ outputFileStream' = [open |-> outWritable, bad |-> FALSE]
    /\ outBytes' = IF outWritable THEN <<>> ELSE outBytes
    /\ outExists' = (outExists \/ outWritable)
    /\ IF ~inReadable \/ ~outWritable
       THEN /\ cerr' = Append(cerr, "Error opening file!")
            /\ encRet' = "void"
            /\ encPc' = "returned"
       ELSE /\ encPc' = "getline"
            /\ UNCHANGED <<cerr, encRet>>
    /\ UNCHANGED <<inputBytes, inReadable, outWritable, outPrior, diskFree,
                   line, recordLength, decVars>>

\* Lines 43-44: the loop condition and the length of the line read.
EncGetline ==
    /\ encPc = "getline"
    /\ LET g == GetLine(inputBytes, inputFile.pos)
       IN  /\ inputFile' = [inputFile EXCEPT !.pos = g.pos]
           /\ line' = g.line
           /\ IF g.ok
              THEN /\ recordLength' = Len(g.line)
                   /\ encPc' = "writeLength"
              ELSE /\ recordLength' = recordLength
                   /\ encPc' = "close"
    /\ UNCHANGED <<fsVars, outBytes, diskFree, outputFileStream, cerr, encRet,
                   decVars>>

\* Line 47: the length field.
EncWriteLength ==
    /\ encPc = "writeLength"
    /\ OutWrite(LengthBytes(recordLength, Width))
    /\ encPc' = "writePayload"
    /\ UNCHANGED <<fsVars, inputFile, line, recordLength, cerr, encRet, decVars>>

\* (mutant) the payload written with the terminating NUL of c_str().
EncWritePayloadWithNUL ==
    /\ encPc = "writePayload"
    /\ OutWrite(SubSeq(line, 1, recordLength) \o <<NUL>>)
    /\ encPc' = "getline"
    /\ UNCHANGED <<fsVars, inputFile, line, recordLength, cerr, encRet, decVars>>

\* Line 49: the payload.
EncWritePayload ==
    /\ encPc = "writePayload"
    /\ OutWrite(SubSeq(line, 1, recordLength))
    /\ encPc' = "getline"
    /\ UNCHANGED <<fsVars, inputFile, line, recordLength, cerr, encRet, decVars>>

\* Lines 52-54: both streams are closed and the function returns.
EncClose ==
    /\ encPc = "close"
    /\ inputFile' = [inputFile EXCEPT !.open = FALSE]
    /\ outputFileStream' = [outputFileStream EXCEPT !.open = FALSE]
    /\ encRet' = "void"
    /\ encPc' = "returned"
    /\ UNCHANGED <<fsVars, outBytes, diskFree, line, recordLength, cerr, decVars>>

encVars == <<outBytes, diskFree, encPc, inputFile, outputFileStream, line,
             recordLength, cerr, encRet>>

\* ---------------------------------------------- readLengthIndicatedRecord
\* The caller opens the binary file the encoder has left and hands the stream
\* to the decoder.
DecOpen ==
    /\ encPc = "returned"
    /\ ~fileStream.open
    /\ outExists
    /\ fileStream' = [open |-> TRUE, content |-> outBytes, pos |-> 0,
                      eof |-> FALSE, fail |-> FALSE]
    /\ UNCHANGED <<fsVars, encVars, calls>>

\* The values recordLength can hold after line 71: the bytes read, and
\* whatever the uninitialised variable held in the bytes that were not read.
PossibleLengths(got) ==
    {FieldValue(got \o g) : g \in [1 .. (Width - Len(got)) -> Byte]}

NULs(n) == [i \in 1 .. n |-> NUL]

\* (mutant) the payload read takes one byte more than the length field says.
ReadCallOffByOne(s, len) ==
    LET r1 == StreamRead(s, Width)
    IN  IF len > MaxAlloc
        THEN [stream |-> r1.stream,
              entry |-> [posBefore |-> s.pos, lenGot |-> Len(r1.data),
                         outcome |-> "threw", record |-> <<>>, gcount |-> 0,
                         posAfter |-> r1.stream.pos,
                         goodAfter |-> ~r1.stream.fail]]
        ELSE LET r2 == StreamRead(r1.stream, len + 1)
             IN  [stream |-> r2.stream,
                  entry |-> [posBefore |-> s.pos, lenGot |-> Len(r1.data),
                             outcome |-> "returned",
                             record |-> r2.data \o NULs(len + 1 - Len(r2.data)),
                             gcount |-> Len(r2.data),
                             posAfter |-> r2.stream.pos,
                             goodAfter |-> ~r2.stream.fail]]

\* (mutant) the string is cut down to the bytes the payload read got.
ReadCallResized(s, len) ==
    LET r1 == StreamRead(s, Width)
    IN  IF len > MaxAlloc
        THEN [stream |-> r1.stream,
              entry |-> [posBefore |-> s.pos, lenGot |-> Len(r1.data),
                         outcome |-> "threw", record |-> <<>>, gcount |-> 0,
                         posAfter |-> r1.stream.pos,
                         goodAfter |-> ~r1.stream.fail]]
        ELSE LET r2 == StreamRead(r1.stream, len)
             IN  [stream |-> r2.stream,
                  entry |-> [posBefore |-> s.pos, lenGot |-> Len(r1.data),
                             outcome |-> "returned",
                             record |-> r2.data,
                             gcount |-> Len(r2.data),
                             posAfter |-> r2.stream.pos,
                             goodAfter |-> ~r2.stream.fail]]

\* One call, lines 67-78, by a caller that stops calling once the stream
\* has failed.  The string of recordLength NULs is built whatever the first
\* read did (the constructor throws when it cannot be allocated), the second
\* read overwrites its first bytes, and the whole string is returned.
ReadCall(s, len) ==
    LET r1 == StreamRead(s, Width)
    IN  IF len > MaxAlloc
        THEN [stream |-> r1.stream,
              entry |-> [posBefore |-> s.pos, lenGot |-> Len(r1.data),
                         outcome |-> "threw", record |-> <<>>, gcount |-> 0,
                         posAfter |-> r1.stream.pos,
                         goodAfter |-> ~r1.stream.fail]]
        ELSE LET r2 == StreamRead(r1.stream, len)
             IN  [stream |-> r2.stream,
                  entry |-> [posBefore |-> s.pos, lenGot |-> Len(r1.data),
                             outcome |-> "returned",
                             record |-> r2.data \o NULs(len - Len(r2.data)),
                             gcount |-> Len(r2.data),
                             posAfter |-> r2.stream.pos,
                             goodAfter |-> ~r2.stream.fail]]

readLengthIndicatedRecord ==
    /\ fileStream.open
    /\ ~fileStream.fail
    /\ \E c \in {ReadCall(fileStream, len) :
                    len \in PossibleLengths(StreamRead(fileStream, Width).data)} :
          /\ fileStream' = c.stream
          /\ calls' = Append(calls, c.entry)
    /\ UNCHANGED <<fsVars, encVars>>

\* ------------------------------------------- what the claims speak about
\* The lines a text file holds, by the places of its terminators: line k lies
\* between terminator k-1 and terminator k; bytes after the last terminator
\* are a last, unterminated line.
NLPlaces(f) == {i \in 1 .. Len(f) : f[i] = NL}
NLPlace(f, k) ==
    IF k = 0 THEN 0
    ELSE IF k > Cardinality(NLPlaces(f)) THEN Len(f) + 1
    ELSE CHOOSE i \in NLPlaces(f) : Cardinality({j \in NLPlaces(f) : j < i}) = k - 1
Terminated(f) == f = <<>> \/ f[Len(f)] = NL
LinesOf(f) ==
    LET n == Cardinality(NLPlaces(f)) + (IF Terminated(f) THEN 0 ELSE 1)
    IN  [k \in 1 .. n |-> SubSeq(f, NLPlace(f, k - 1) + 1, NLPlace(f, k) - 1)]

\* The text file that holds the lines ls, each followed by its terminator.
RECURSIVE FileOf(_)
FileOf(ls) == IF ls = <<>> THEN <<>> ELSE Head(ls) \o <<NL>> \o FileOf(Tail(ls))

\* Where record k of the lines ls starts in a length-indicated file, and the
\* size of the whole file.
RECURSIVE OffsetOf(_, _)
OffsetOf(ls, k) == IF k <= 1 THEN 0 ELSE OffsetOf(ls, k - 1) + Width + Len(ls[k - 1])
SizeOf(ls) == OffsetOf(ls, Len(ls) + 1)

\* f is, record by record, the length-indicated file of the lines ls.
LayoutOf(f, ls) ==
    /\ Len(f) = SizeOf(ls)
    /\ \A k \in 1 .. Len(ls) :
          LET off == OffsetOf(ls, k)
          IN  /\ FieldValue(SubSeq(f, off + 1, off + Width)) = Len(ls[k])
              /\ SubSeq(f, off + Width + 1, off + Width + Len(ls[k])) = ls[k]

\* The length-indicated file of the lines ls, as one sequence of bytes.
RECURSIVE EncodingOf(_)
EncodingOf(ls) ==
    IF ls = <<>> THEN <<>>
    ELSE LengthBytes(Len(Head(ls)), Width) \o Head(ls) \o EncodingOf(Tail(ls))

IsPrefix(a, b) == Len(a) <= Len(b) /\ a = SubSeq(b, 1, Len(a))

\* Both files opened and the encoder has returned.
Encoded == encPc = "returned" /\ inReadable /\ outWritable
OpenFailed == encPc = "returned" /\ (~inReadable \/ ~outWritable)

\* What a caller that loops until the stream fails keeps: the record of every
\* call that left the stream good.
LeftGood(c) == c.goodAfter
Decoded == LET g == SelectSeq(calls, LeftGood) IN [i \in 1 .. Len(g) |-> g[i].record]
DecodeDone == fileStream.open /\ fileStream.fail

\* ------------------------------------------------------------------ C1
\* C1: round trip.  Once the file holding the lines L1..Ln has been encoded
\* and the output decoded call by call until the stream fails, the records
\* kept are exactly L1..Ln in order (a prefix of them while decoding is under
\* way), and the only other call is the one that hits the end of the stream.
\* A file that holds lines, each with its terminator, is FileOf of them.
C1_RoundTrip ==
    (Encoded /\ fileStream.open) =>
        LET ls == LinesOf(inputBytes)
        IN  /\ Terminated(inputBytes) => FileOf(ls) = inputBytes
            /\ \A k \in 1 .. Len(ls) : \A i \in 1 .. Len(ls[k]) : ls[k][i] # NL
            /\ IsPrefix(Decoded, ls)
            /\ DecodeDone => (Decoded = ls /\ Len(calls) = Len(ls) + 1)

C1_Witness ==
    /\ Encoded
    /\ DecodeDone
    /\ Terminated(inputBytes)
    /\ Decoded = <<<<2>>, <<>>>>

\* ------------------------------------------------------------------ C2
C2_Layout ==
    LET ls == LinesOf(inputBytes)
    IN  /\ LayoutOf(outBytes, ls)
        /\ inputBytes = <<>> => outBytes = <<>>

C2_SingleLine(n) ==
    inputBytes = ABCFile =>
        /\ Len(outBytes) = Width + n
        /\ FieldValue(SubSeq(outBytes, 1, Width)) = n
        /\ SubSeq(outBytes, Width + 1, Len(outBytes)) = ABCLine

\* C2 as claimed: the output is one record per input line, in order, each a
\* length field equal to the line's byte length followed by that many bytes;
\* an empty input gives an empty output; the line a,b,c gives Width + 3 bytes
\* with length field 3.
C2_Original == Encoded => (C2_Layout /\ C2_SingleLine(3))

\* C2 as amended: as above, but the line a,b,c, which is 5 bytes long, gives
\* Width + 5 bytes with length field 5.
C2_OutputLayout == Encoded => (C2_Layout /\ C2_SingleLine(5))

C2_Witness ==
    /\ Encoded
    /\ inputBytes = ABCFile
    /\ Len(outBytes) = Width + 5

\* ------------------------------------------------------------------ C10
\* C10: the output is opened (truncated) before either open is checked.  When
\* the input cannot be opened and the output can, the encoder returns with
\* the output file existing and empty whatever it held; whenever the output
\* opens, its content is from then on a prefix of, and at the return equal to,
\* the records of the input lines: nothing of the prior content is left.
C10_OutputOverwritten ==
    (encPc # "idle" /\ outWritable) =>
        /\ outExists
        /\ ~inReadable => (encPc = "returned" /\ outBytes = <<>>)
        /\ inReadable =>
              LET f == EncodingOf(LinesOf(inputBytes))
              IN  /\ IsPrefix(outBytes, f)
                  /\ encPc = "returned" => outBytes = f

C10_Witness ==
    /\ encPc = "returned"
    /\ ~inReadable
    /\ outWritable
    /\ outPrior # <<>>
    /\ outBytes = <<>>

\* ------------------------------------------------ records of a binary file
FieldAt(f, pos) == FieldValue(SubSeq(f, pos + 1, pos + Width))
\* A whole length field lies at pos.
FieldWholeAt(f, pos) == pos + Width <= Len(f)
\* A complete record lies at pos: its length field and all its payload.
CompleteAt(f, pos) == FieldWholeAt(f, pos) /\ pos + Width + FieldAt(f, pos) <= Len(f)
\* A length field lies at pos and declares more bytes than remain after it.
TruncatedAt(f, pos) == FieldWholeAt(f, pos) /\ pos + Width + FieldAt(f, pos) > Len(f)
Remaining(f, pos) == SubSeq(f, pos + Width + 1, Len(f))
PayloadAt(f, pos) == SubSeq(f, pos + Width + 1, pos + Width + FieldAt(f, pos))

\* f is complete records from pos to its end; and the payloads of those records.
RECURSIVE WellFormedFrom(_, _)
WellFormedFrom(f, pos) ==
    \/ pos = Len(f)
    \/ CompleteAt(f, pos) /\ WellFormedFrom(f, pos + Width + FieldAt(f, pos))
RECURSIVE RecordsFrom(_, _)
RecordsFrom(f, pos) ==
    IF pos >= Len(f) \/ ~CompleteAt(f, pos) THEN <<>>
    ELSE <<PayloadAt(f, pos)>> \o RecordsFrom(f, pos + Width + FieldAt(f, pos))
RECURSIVE BoundariesFrom(_, _)
BoundariesFrom(f, pos) ==
    IF pos >= Len(f) \/ ~CompleteAt(f, pos) THEN {pos}
    ELSE {pos} \cup BoundariesFrom(f, pos + Width + FieldAt(f, pos))

\* ------------------------------------------------------------------ C3
\* C3: a call on a stream positioned at the start of a complete record with
\* length field L returns exactly the L payload bytes of that record and
\* leaves the stream good, Width + L bytes further on; so on a well-formed
\* file the k-th call returns the k-th record and every call leaves the
\* position at a record boundary.
C3_DecoderStep ==
    LET f == fileStream.content
    IN  /\ \A i \in 1 .. Len(calls) :
              LET c == calls[i]
              IN  CompleteAt(f, c.posBefore) =>
                      /\ c.outcome = "returned"
                      /\ c.record = PayloadAt(f, c.posBefore)
                      /\ c.gcount = FieldAt(f, c.posBefore)
                      /\ c.posAfter = c.posBefore + Width + FieldAt(f, c.posBefore)
                      /\ c.goodAfter
        /\ WellFormedFrom(f, 0) =>
              \A i \in 1 .. Len(calls) :
                  /\ calls[i].posAfter \in BoundariesFrom(f, 0)
                  /\ i <= Len(RecordsFrom(f, 0)) =>
                        calls[i].record = RecordsFrom(f, 0)[i]

C3_Witness ==
    /\ fileStream.content = <<1, 0, 2, 0, 0>>
    /\ Len(calls) = 2
    /\ calls[1].record = <<2>>
    /\ calls[2].record = <<>>
    /\ calls[2].posAfter = 5
    /\ ~fileStream.fail

\* ------------------------------------------------------------------ C4
\* C4: on the well-formed file the encoder wrote for n lines, the first n
\* calls leave the stream good and the call after them leaves it failed, at
\* the end of the file (for an empty file, the very first call); the caller
\* that loops until the stream fails makes no further call.
C4_Calls ==
    (Encoded /\ fileStream.open) =>
        LET n == Len(LinesOf(inputBytes))
        IN  /\ Len(calls) <= n + 1
            /\ \A i \in 1 .. Len(calls) : calls[i].goodAfter <=> i <= n
            /\ fileStream.fail <=> Len(calls) = n + 1
            /\ fileStream.fail => (fileStream.eof /\ fileStream.pos = Len(outBytes))

\* ... and the loop comes to that failing call: every step of the loop is
\* one more of the at most n + 1 calls, and none moves the stream back.
C4_Progress ==
    (Encoded /\ fileStream.open) =>
        /\ Len(calls') = Len(calls) + 1
        /\ fileStream'.pos >= fileStream.pos
        /\ fileStream.fail => fileStream'.fail

\* C4: end of stream.  In every state the calls are as C4_Calls says, and
\* every step of the decoding loop is as C4_Progress says, so the loop ends
\* after exactly n records with the stream failed.
C4_EndOfStream == []C4_Calls /\ [][C4_Progress]_vars

C4_Witness ==
    /\ Encoded
    /\ Len(LinesOf(inputBytes)) = 2
    /\ Len(calls) = 3
    /\ fileStream.fail

\* ------------------------------------------------------------------ C5
\* C5: for every call that returns a record after reading a length field, on
\* any byte stream, the number of payload bytes read from the stream equals
\* the value of that length field.
C5_LengthInvariant ==
    \A i \in 1 .. Len(calls) :
        (calls[i].outcome = "returned" /\ calls[i].lenGot = Width) =>
            calls[i].gcount = FieldAt(fileStream.content, calls[i].posBefore)

\* ------------------------------------------------------------------ C6
\* C6: when the length field read declares more bytes than remain in the
\* stream, the call does not return a record as if the read had succeeded.
C6_TruncationReported ==
    \A i \in 1 .. Len(calls) :
        TruncatedAt(fileStream.content, calls[i].posBefore) =>
            calls[i].outcome # "returned"

\* ------------------------------------------------------------------ C7
\* C7: when either file cannot be opened the encoder hands its caller an
\* open-failure error, and nothing is appended to the output file.
C7_OpenFailureReported ==
    OpenFailed =>
        /\ encRet # "void"
        /\ IsPrefix(outBytes, outPrior)

\* ------------------------------------------------------------------ C8
\* C8: the encoder never returns as if it had succeeded (nothing but void
\* returned, nothing on cerr) while the output ends in a torn record.
C8_NoSilentTornRecord ==
    (Encoded /\ ~WellFormedFrom(outBytes, 0)) =>
        (encRet # "void" \/ cerr # <<>>)

\* ------------------------------------------------------------------ C9
\* C9 as claimed: when the length field declares L bytes and only m < L
\* remain, the call returns a short record of exactly those m bytes.
C9_Original ==
    \A i \in 1 .. Len(calls) :
        LET f == fileStream.content
            c == calls[i]
        IN  (TruncatedAt(f, c.posBefore) /\ c.outcome = "returned") =>
                c.record = Remaining(f, c.posBefore)

\* C9 as amended: the call returns a string of length L, the m bytes that
\* remained followed by L - m NUL bytes, having read m bytes and left the
\* stream failed at its end; unless a string of L bytes cannot be allocated,
\* and then the call throws instead of returning.
C9_TruncatedRecord ==
    \A i \in 1 .. Len(calls) :
        LET f == fileStream.content
            c == calls[i]
            L == FieldAt(f, c.posBefore)
            m == Len(Remaining(f, c.posBefore))
        IN  TruncatedAt(f, c.posBefore) =>
                /\ c.outcome = (IF L > MaxAlloc THEN "threw" ELSE "returned")
                /\ c.outcome = "returned" =>
                      /\ Len(c.record) = L
                      /\ SubSeq(c.record, 1, m) = Remaining(f, c.posBefore)
                      /\ \A j \in (m + 1) .. L : c.record[j] = NUL
                      /\ c.gcount = m
                      /\ c.posAfter = Len(f)
                      /\ ~c.goodAfter

C9_Witness ==
    /\ fileStream.content = <<2, 0, 2>>
    /\ Len(calls) = 1
    /\ calls[1].outcome = "returned"
    /\ calls[1].record = <<2, NUL>>
    /\ fileStream.fail

\* ------------------------------------------------------- specifications
InitEncoder ==
    /\ encPc = "idle"
    /\ inputFile = [open |-> FALSE, pos |-> 0]
    /\ outputFileStream = [open |-> FALSE, bad |-> FALSE]
    /\ line = <<>>
    /\ recordLength = 0
    /\ cerr = <<>>
    /\ encRet = "none"

InitFiles ==
    /\ inputBytes \in SeqsUpTo(TextByte, MaxInput) \cup {ABCFile}
    /\ inReadable \in BOOLEAN
    /\ outWritable \in BOOLEAN
    /\ outExists \in BOOLEAN
    /\ outBytes \in (IF outExists THEN SeqsUpTo(TextByte, MaxPrior) ELSE {<<>>})
    /\ outPrior = outBytes

\* A device with room for whatever the encoder writes.
Init ==
    /\ InitFiles
    /\ diskFree = Ample
    /\ InitEncoder
    /\ fileStream = ClosedStream
    /\ calls = <<>>

Next ==
    \/ EncOpen
    \/ EncGetline
    \/ EncWriteLength
    \/ EncWritePayload
    \/ EncClose
    \/ DecOpen
    \/ readLengthIndicatedRecord

Spec == Init /\ [][Next]_vars

\* A nearly full device: it accepts diskFree more bytes and then refuses.
InitFault ==
    /\ InitFiles
    /\ diskFree \in 0 .. MaxBudget
    /\ InitEncoder
    /\ fileStream = ClosedStream
    /\ calls = <<>>

SpecFault == InitFault /\ [][Next]_vars

\* The decoder alone, on a stream the caller has opened on any binary file.
InitDecode ==
    /\ inputBytes = <<>>
    /\ inReadable = FALSE
    /\ outWritable = FALSE
    /\ outExists = TRUE
    /\ outBytes \in SeqsUpTo(TextByte, MaxStream)
    /\ outPrior = outBytes
    /\ diskFree = 0
    /\ InitEncoder
    /\ fileStream = [open |-> TRUE, content |-> outBytes, pos |-> 0,
                     eof |-> FALSE, fail |-> FALSE]
    /\ calls = <<>>

NextDecode == readLengthIndicatedRecord

SpecDecode == InitDecode /\ [][NextDecode]_vars

====
